---- MODULE Spec2Model ----
(***************************************************************************)
(* Break-in detection over an ssh log (strauchm_homework2.cpp).            *)
(*                                                                         *)
(* process() skips the header block of the stream, then handles one data   *)
(* line per iteration: authorized-user test, banned-IP test, flag lookup,  *)
(* login-frequency test; it prints a summary when the stream ends.         *)
(*                                                                         *)
(* A log line is a sequence of six fields                                  *)
(*     << stamp, "sshd", pid, verb, name, ip >>                            *)
(* standing for "Jun 10 03:32:36 host sshd[12345]: Failed password for     *)
(* root from 1.2.3.4".  std::string::find is the search of a token in the  *)
(* sequence.  The stamp is the text that line.substr(0, 14) hands to       *)
(* toSeconds, as a pair << minute, second >>; day and hour are the same    *)
(* for all lines.  (For a 15-character prefix such as "Jun 10 03:32:36"    *)
(* the 14-character cut drops the last digit; the stamp of a model line is *)
(* the prefix as cut.)                                                     *)
(***************************************************************************)
EXTENDS Integers, Sequences, FiniteSets, TLC

VARIABLES pc, flagged, log, lineCount, hackAtt, user, line, outcome, os, seen, tally

vars == <<pc, flagged, log, lineCount, hackAtt, user, line, outcome, os, seen, tally>>

(* ---------------------------- bounds ----------------------------------- *)

\* data lines read in one run of Spec
MaxLines == 4
\* data lines read in one run of SpecAudit
MaxAudit == 5
\* stamps are 10 seconds apart: 00:40, 00:50, 01:00, ... (MaxTick + 1 of them)
MaxTick == 3

(* ---------------------------- inputs ----------------------------------- *)

Stamps == { <<(40 + 10 * k) \div 60, (40 + 10 * k) % 60>> : k \in 0..MaxTick }
Pids == {"11111", "22222"}
Verbs == {"Failed", "Accepted"}
Names == {"root", "guest"}
Ips == {"6.6.6.6", "7.7.7.7"}

MkLine(st, p, v, n, ip) == <<st, "sshd", p, v, n, ip>>

\* every well-formed data line over the small vocabulary
Lines == { MkLine(st, p, v, n, ip) : st \in Stamps, p \in Pids, v \in Verbs,
                                      n \in Names, ip \in Ips }

\* contents of authorized_users.txt and banned_ips.txt
authUser == {"root"}
banIP == {"6.6.6.6"}

\* the users whose lines the history variable seen records in SpecAudit
Audited == {"11111"}
AuditLines == { MkLine(st, p, v, "guest", "7.7.7.7") :
                  st \in Stamps, p \in Audited, v \in Verbs }

(* ---------------------------- helpers ---------------------------------- *)

npos == 0

\* std::string::find on the token sequence: first position of tok, or npos
Find(l, tok) ==
  IF \E i \in 1..Len(l) : l[i] = tok
    THEN CHOOSE i \in 1..Len(l) : l[i] = tok /\ \A j \in 1..(i - 1) : l[j] # tok
    ELSE npos

Abs(x) == IF x < 0 THEN -x ELSE x

\* toSeconds applied to the leading timestamp text of the line
toSeconds(st) == 60 * st[1] + st[2]

isAuth(l, auth) == \E e \in auth : Find(l, e) # npos

isBand(l, ban) == \E e \in ban : Find(l, e) # npos

\* the five characters after "sshd["
UserOf(l) == l[Find(l, "sshd") + 1]

\* isFlag with the bug of storing false on every lookup
isFlag_Reset(u, fl) ==
  [ret |-> u \in DOMAIN fl /\ fl[u] = TRUE,
   flagged |-> [x \in DOMAIN fl \cup {u} |-> IF x = u THEN FALSE ELSE fl[x]]]

\* isFlag: the answer and the map as the call leaves it
isFlag(u, fl) ==
  IF u \notin DOMAIN fl
    THEN [ret |-> FALSE, flagged |-> [x \in DOMAIN fl \cup {u} |->
                                        IF x = u THEN FALSE ELSE fl[x]]]
    ELSE IF fl[u] = TRUE
      THEN [ret |-> TRUE, flagged |-> fl]
      ELSE [ret |-> FALSE, flagged |-> fl]

\* the limit of the gap test in checkLogHelper
Span == 20

\* the value the counter check has to exceed
Threshold == 2

\* the gap test with the bug of a doubled limit
Close_Wide(a, b) == Abs(b - a) < Span + Span

\* the gap test with the bug of <= for <
Close_Inclusive(a, b) == Abs(b - a) <= Span

\* the gap test on two neighbouring entries
Close(a, b) == Abs(b - a) < Span

\* the pair test with the bug of a forgotten look at the line
Pass_GapOnly(a, b, l) == Close(a, b)

\* the test of one pair: close together, and the line says "Failed"
Pass(a, b, l) == Close(a, b) /\ Find(l, "Failed") # npos

\* the breach test with the bug of >= for >
Exceeds_AtLeast(check) == check >= Threshold

\* the test that declares the breach
Exceeds(check) == check > Threshold

\* the cut with the bug of keeping the oldest entry
Keep_First(temp) == <<temp[1]>>

\* temp.back() alone: the history a failed pair leaves
Keep(temp) == <<temp[Len(temp)]>>

\* the slide with the bug of a forgotten erase
Slide_Keep(temp) == temp

\* the slide with the bug of erasing the newest entry
Slide_DropLast(temp) == SubSeq(temp, 1, Len(temp) - 1)

\* temp.erase(temp.begin()): the history a breach leaves
Slide(temp) == Tail(temp)

RECURSIVE HelperLoop(_, _, _, _, _)
\* the for loop of checkLogHelper from index i (0-based) on; stored is log[user]
HelperLoop(i, check, temp, stored, l) ==
  IF ~(i < Len(temp))
    THEN [ret |-> FALSE, hist |-> stored]
    ELSE LET pair == i + 1 < Len(temp)
             ok == pair /\ Pass(temp[i + 1], temp[i + 2], l)
             check1 == IF ~pair THEN check ELSE IF ok THEN check + 1 ELSE 0
             temp1 == IF pair /\ ~ok THEN Keep(temp) ELSE temp
             stored1 == IF pair /\ ~ok THEN temp1 ELSE stored
         IN IF Exceeds(check1)
              THEN [ret |-> TRUE, hist |-> Slide(temp1)]
              ELSE HelperLoop(i + 1, check1, temp1, stored1, l)

checkLogHelper(temp, l) == HelperLoop(0, 0, temp, temp, l)

\* the size test with the bug of 2 for 3
Short_Two(temp) == Len(temp) < 1 + 1

\* the history is too short for the helper
Short(temp) == Len(temp) < 3

\* checkLog: the answer and the history of the user as the call leaves it
checkLog(l, lg, u) ==
  LET time == toSeconds(l[1]) IN
  IF u \notin DOMAIN lg
    THEN [ret |-> FALSE, hist |-> <<time>>]
    ELSE LET temp == Append(lg[u], time) IN
         IF Short(temp)
           THEN [ret |-> FALSE, hist |-> temp]
           ELSE checkLogHelper(temp, l)

\* processHelper: what it adds to the output, by kind of message
processHelper(o, reason, hack, count) ==
  IF reason = 1 THEN [o EXCEPT !.banned = @ + 1]
  ELSE IF reason = 2 THEN [o EXCEPT !.frequency = @ + 1]
  ELSE IF reason = 3 THEN [o EXCEPT !.summary = Append(@, <<count, hack>>)]
  ELSE o

\* the value processHelper returns
processHelperRet == 1

\* the store with the bug of one history shared by all users
Put_All(f, k, v) == [x \in DOMAIN f \cup {k} |-> v]

\* map[key] = value
Put(f, k, v) == [x \in DOMAIN f \cup {k} |-> IF x = k THEN v ELSE f[x]]

Outcomes == {"Authorized", "BannedIP", "AlreadyFlagged", "FrequencyBreach", "Benign"}
Hacking == {"BannedIP", "AlreadyFlagged", "FrequencyBreach"}

(* ---------------------------- the program ------------------------------ *)

InitProgram ==
  /\ pc = "header"
  /\ log = <<>>
  /\ lineCount = 0
  /\ hackAtt = 0
  /\ user = ""
  /\ line = <<>>
  /\ outcome = "None"
  /\ os = [banned |-> 0, frequency |-> 0, summary |-> <<>>]

Init ==
  /\ InitProgram
  /\ flagged = <<>>
  /\ seen = <<>>
  /\ tally = [o \in Outcomes |-> 0]

InitAudit ==
  /\ InitProgram
  /\ flagged = <<>>
  /\ seen = [u \in Audited |-> <<>>]
  /\ tally = [o \in Outcomes |-> 0]

\* the header loop: reads up to and including the first empty (or "\r") line
SkipHeader ==
  /\ pc = "header"
  /\ pc' = "data"
  /\ UNCHANGED <<flagged, log, lineCount, hackAtt, user, line, outcome, os, seen, tally>>

\* the chain with the bug of testing the banned list first
Branch_BannedFirst(l, fl, lg) ==
  IF isBand(l, banIP) THEN "BannedIP"
  ELSE IF isAuth(l, authUser) THEN "Authorized"
  ELSE IF isFlag(UserOf(l), fl).ret THEN "AlreadyFlagged"
  ELSE IF checkLog(l, lg, UserOf(l)).ret THEN "FrequencyBreach"
  ELSE "Benign"

\* the chain with the bug of testing the banned list last
Branch_BannedLast(l, fl, lg) ==
  IF isAuth(l, authUser) THEN "Authorized"
  ELSE IF isFlag(UserOf(l), fl).ret THEN "AlreadyFlagged"
  ELSE IF checkLog(l, lg, UserOf(l)).ret THEN "FrequencyBreach"
  ELSE IF isBand(l, banIP) THEN "BannedIP"
  ELSE "Benign"

\* the branch of the if / else-if chain that line l takes
Branch(l, fl, lg) ==
  IF isAuth(l, authUser) THEN "Authorized"
  ELSE IF isBand(l, banIP) THEN "BannedIP"
  ELSE IF isFlag(UserOf(l), fl).ret THEN "AlreadyFlagged"
  ELSE IF checkLog(l, lg, UserOf(l)).ret THEN "FrequencyBreach"
  ELSE "Benign"

\* flagged after the chain: isFlag runs when neither list matches the line
FlaggedAfter(l, fl, b) ==
  IF b \in {"Authorized", "BannedIP"} THEN fl ELSE isFlag(UserOf(l), fl).flagged

\* the log with the bug of a frequency check on every line
LogAfter_Always(l, lg, b) == Put(lg, UserOf(l), checkLog(l, lg, UserOf(l)).hist)

\* log after the chain: checkLog runs when isFlag has answered false
LogAfter(l, lg, b) ==
  IF b \in {"FrequencyBreach", "Benign"}
    THEN Put(lg, UserOf(l), checkLog(l, lg, UserOf(l)).hist)
    ELSE lg

\* the message of the branch: reason 1 for a banned IP and for a flagged user
Report(o, b) ==
  IF b \in {"BannedIP", "AlreadyFlagged"} THEN processHelper(o, 1, 0, 0)
  ELSE IF b = "FrequencyBreach" THEN processHelper(o, 2, 0, 0)
  ELSE o

\* the count with the bug of a forgotten += on the banned branch
HackAfter_SkipBanned(h, b) ==
  IF b = "AlreadyFlagged" THEN h + processHelperRet
  ELSE IF b = "FrequencyBreach" THEN h + processHelperRet
  ELSE h

\* hackAtt after the chain
HackAfter(h, b) ==
  IF b = "BannedIP" THEN h + processHelperRet
  ELSE IF b = "AlreadyFlagged" THEN h + processHelperRet
  ELSE IF b = "FrequencyBreach" THEN h + processHelperRet
  ELSE h

\* what the history variable keeps of a line that reached the flag lookup
\* (before and after: the history of its user as the line found and left it)
HistOf(lg, u) == IF u \in DOMAIN lg THEN lg[u] ELSE <<>>

Entry(l, b, lg0, lg1) ==
  [t |-> toSeconds(l[1]), failed |-> Find(l, "Failed") # npos, outcome |-> b,
   before |-> HistOf(lg0, UserOf(l)), after |-> HistOf(lg1, UserOf(l))]

\* one iteration of the data loop on the non-empty line l
Classify(l) ==
  /\ pc = "data"
  /\ \E b \in {Branch(l, flagged, log)} :
        /\ lineCount' = lineCount + 1
        /\ user' = UserOf(l)
        /\ line' = l
        /\ outcome' = b
        /\ flagged' = FlaggedAfter(l, flagged, b)
        /\ log' = LogAfter(l, log, b)
        /\ hackAtt' = HackAfter(hackAtt, b)
        /\ os' = Report(os, b)
        /\ seen' = IF UserOf(l) \in DOMAIN seen /\ b \notin {"Authorized", "BannedIP"}
                     THEN [seen EXCEPT ![UserOf(l)] = Append(@, Entry(l, b, log, log'))]
                     ELSE seen
        /\ tally' = [tally EXCEPT ![b] = @ + 1]
  /\ pc' = pc

\* the data loop ends (empty line or end of stream) and the summary is printed
Summary ==
  /\ pc = "data"
  /\ pc' = "done"
  /\ os' = processHelper(os, 3, hackAtt, lineCount)
  /\ UNCHANGED <<flagged, log, lineCount, hackAtt, user, line, outcome, seen, tally>>

Next ==
  \/ SkipHeader
  \/ \E l \in Lines : lineCount < MaxLines /\ Classify(l)
  \/ Summary

Spec == Init /\ [][Next]_vars

NextAudit ==
  \/ SkipHeader
  \/ \E l \in AuditLines : lineCount < MaxAudit /\ Classify(l)
  \/ Summary

SpecAudit == InitAudit /\ [][NextAudit]_vars

\* flag tables isFlag may be handed, and lines that differ in all but the stamp
FlagTables == UNION { [D -> BOOLEAN] : D \in SUBSET Pids }
LookupLines == { l \in Lines : toSeconds(l[1]) = 40 }

InitLookup ==
  /\ InitProgram
  /\ seen = <<>>
  /\ tally = [o \in Outcomes |-> 0]
  /\ \E fl \in FlagTables : flagged = fl

\* the data loop started on an arbitrary flag table
NextLookup ==
  \/ SkipHeader
  \/ \E l \in LookupLines : lineCount < MaxLines /\ Classify(l)
  \/ Summary

SpecLookup == InitLookup /\ [][NextLookup]_vars

\* non-empty data lines of one token, without "sshd": a blank line that kept
\* its carriage return, and the last-chunk line of a chunked body
ShortLines == { <<"\r">>, <<"0\r">> }

\* line.size() of a line of one token
Size(l) == Len(l[1])

\* temp + 5 when line.find("sshd") found nothing and temp is -1
NoSshdPos == 4

\* line.substr(temp + 5, 5) throws std::out_of_range when the position lies
\* beyond the end of the line; the lines of Lines hold the pid after "sshd["
SubstrThrows(l) == Find(l, "sshd") = npos /\ NoSshdPos > Size(l)

\* an iteration of the data loop that ends in the uncaught exception: the
\* line is counted, nothing is printed, the program terminates
Crash(l) ==
  /\ pc = "data"
  /\ SubstrThrows(l)
  /\ lineCount' = lineCount + 1
  /\ line' = l
  /\ pc' = "aborted"
  /\ UNCHANGED <<flagged, log, hackAtt, user, outcome, os, seen, tally>>

\* the data loop on a stream that may hold short lines
NextStream ==
  \/ SkipHeader
  \/ \E l \in LookupLines : lineCount < MaxLines /\ Classify(l)
  \/ \E l \in ShortLines : lineCount < MaxLines /\ Crash(l)
  \/ Summary

SpecStream == Init /\ [][NextStream]_vars

(* ---------------------------- properties ------------------------------- *)

\* a data line has just been handled
Handled == lineCount' = lineCount + 1

\* the frequency check would answer true for the line just handled
WouldBreach == user \in DOMAIN log /\ checkLog(line, log, user).ret

\* the first n recorded lines of s say "Failed"
AllFailed(s, n) == \A i \in 1..n : s[i].failed

\* the outcomes of a recorded history
OutcomesOf(s) == [i \in 1..Len(s) |-> s[i].outcome]

\* the history the frequency check scans for a recorded line
Scanned(e) == Append(e.before, e.t)

\* the frequency check ran on a recorded line
Checked(e) == e.outcome \in {"Benign", "FrequencyBreach"}

C2_ThirdLineBreaches ==
  \A u \in DOMAIN seen :
    (/\ Len(seen[u]) >= 3
     /\ AllFailed(seen[u], 3)
     /\ \A i \in 1..2 : Abs(seen[u][i + 1].t - seen[u][i].t) <= Span)
    => SubSeq(OutcomesOf(seen[u]), 1, 3) = <<"Benign", "Benign", "FrequencyBreach">>

\* C2 amended: of the first lines of a user, all "Failed" and each less than
\* 20 seconds from its predecessor, the first three are Benign and the fourth
\* is the FrequencyBreach.
C2_FourthLineBreaches ==
  \A u \in DOMAIN seen : \A n \in 1..4 :
    (/\ Len(seen[u]) >= n
     /\ AllFailed(seen[u], n)
     /\ \A i \in 1..(n - 1) : Abs(seen[u][i + 1].t - seen[u][i].t) < Span)
    => seen[u][n].outcome = IF n = 4 THEN "FrequencyBreach" ELSE "Benign"

C2_Witness ==
  \E u \in DOMAIN seen :
    /\ Len(seen[u]) >= 4
    /\ AllFailed(seen[u], 4)
    /\ \A i \in 1..3 : Abs(seen[u][i + 1].t - seen[u][i].t) < Span
    /\ seen[u][4].outcome = "FrequencyBreach"

\* C3: after a FrequencyBreach of a user, every later line of that user that
\* matches neither list is classified AlreadyFlagged (the first half of the
\* claim; the second half, an untouched history, depends on it).
C3_FlagStickiness ==
  \A u \in DOMAIN seen : \A i, j \in 1..Len(seen[u]) :
    (i < j /\ seen[u][i].outcome = "FrequencyBreach")
      => seen[u][j].outcome = "AlreadyFlagged"

\* C4: right after a line is classified FrequencyBreach, the flag of its user
\* is true.
C4_BreachSetsFlag ==
  outcome = "FrequencyBreach" => (user \in DOMAIN flagged /\ flagged[user] = TRUE)

\* C5: a FrequencyBreach of a user comes with at least 3 of its "Failed"
\* lines (the current one included) whose timestamps lie in the 20 seconds
\* that end at the current line.
C5_BreachSoundness ==
  \A u \in DOMAIN seen : \A j \in 1..Len(seen[u]) :
    seen[u][j].outcome = "FrequencyBreach"
      => Cardinality({ i \in 1..j : /\ seen[u][i].failed
                                    /\ seen[u][i].outcome # "AlreadyFlagged"
                                    /\ seen[u][i].t <= seen[u][j].t
                                    /\ seen[u][j].t - seen[u][i].t <= Span }) >= 3

\* C6: between a line without "Failed" that went through the frequency check
\* and a later FrequencyBreach of the same user lie at least 3 "Failed" lines
\* of that user (the breaching line included).
C6_ResetOnSuccess ==
  \A u \in DOMAIN seen : \A i, j \in 1..Len(seen[u]) :
    (/\ i < j
     /\ ~seen[u][i].failed
     /\ seen[u][i].outcome # "AlreadyFlagged"
     /\ seen[u][j].outcome = "FrequencyBreach")
    => Cardinality({ k \in (i + 1)..j : seen[u][k].failed }) >= 3

\* C7: a line whose timestamp is more than 20 seconds after the last
\* timestamp in the history of its user is never a FrequencyBreach.
C7_GapBreaksWindow ==
  [][(/\ Handled
      /\ user' \in DOMAIN log
      /\ toSeconds(line'[1]) - log[user'][Len(log[user'])] > Span)
       => outcome' # "FrequencyBreach"]_vars

C7_Witness ==
  \E u \in DOMAIN seen :
    /\ Len(seen[u]) >= 4
    /\ AllFailed(seen[u], 4)
    /\ \A i \in 1..2 : Abs(seen[u][i + 1].t - seen[u][i].t) < Span
    /\ seen[u][4].t - seen[u][3].t > Span
    /\ seen[u][4].outcome = "Benign"
    /\ Len(seen[u]) = 4 => log[u] = <<seen[u][4].t>>

\* the lines counted so far, over all outcomes
Consumed ==
  tally["Authorized"] + tally["BannedIP"] + tally["AlreadyFlagged"]
    + tally["FrequencyBreach"] + tally["Benign"]

\* C8: lineCount is the number of data lines consumed, each of which had one
\* of the five outcomes; hackAtt is the number of BannedIP, AlreadyFlagged and
\* FrequencyBreach outcomes, never above lineCount, and a line adds 0 or 1.
C8_CounterAccounting ==
  /\ [](/\ lineCount = Consumed
        /\ hackAtt = tally["BannedIP"] + tally["AlreadyFlagged"] + tally["FrequencyBreach"]
        /\ hackAtt <= lineCount
        /\ (lineCount > 0 => outcome \in Outcomes))
  /\ [][/\ hackAtt' - hackAtt \in {0, 1}
        /\ Handled => \E o \in Outcomes : /\ outcome' = o
                                          /\ tally' = [tally EXCEPT ![o] = @ + 1]]_vars

C8_Witness ==
  /\ tally["Authorized"] > 0 /\ tally["BannedIP"] > 0 /\ tally["Benign"] > 0
  /\ hackAtt = tally["BannedIP"]
  /\ hackAtt < lineCount

\* C9: a line with no authorized-user token and with a banned-IP token is
\* classified BannedIP and counted, whatever the flag and the history of its
\* user.
C9_BannedRule ==
  [][(Handled /\ ~isAuth(line', authUser) /\ isBand(line', banIP))
       => (/\ outcome' = "BannedIP"
           /\ hackAtt' = hackAtt + 1
           /\ os' = [os EXCEPT !.banned = @ + 1])]_vars

C9_Witness ==
  /\ outcome = "BannedIP"
  /\ ~isAuth(line, authUser) /\ isBand(line, banIP)
  /\ WouldBreach

\* C10: an entry of the flag table that is true stays in the table and stays
\* true.
C10_FlagMonotone ==
  [][\A u \in DOMAIN flagged :
       flagged[u] = TRUE => (u \in DOMAIN flagged' /\ flagged'[u] = TRUE)]_vars

C10_Witness ==
  /\ outcome = "AlreadyFlagged"
  /\ flagged[user] = TRUE
  /\ \E v \in DOMAIN flagged : v # user /\ flagged[v] = FALSE /\ v \in DOMAIN log

\* C11: after every line the history of every user holds at most 3
\* timestamps, and the history a frequency check scans holds at most 4.
C11_BoundedHistory ==
  /\ \A u \in DOMAIN log : Len(log[u]) <= 3
  /\ \A u \in DOMAIN seen : \A i \in 1..Len(seen[u]) : Len(Scanned(seen[u][i])) <= 4

C11_Witness ==
  \E u \in DOMAIN seen :
    /\ Len(seen[u]) >= 5
    /\ seen[u][4].outcome = "FrequencyBreach"
    /\ Len(Scanned(seen[u][5])) = 4
    /\ Len(log[u]) = 3

\* the gaps between the neighbouring entries of a history
Gaps(h) == [i \in 1..(Len(h) - 1) |-> Abs(h[i + 1] - h[i])]

\* C12: a frequency check on a line without "Failed", or on a line more than
\* 20 seconds after the last recorded timestamp of its user, leaves the
\* history with the timestamp of that line alone.
C12_TruncationOnBrokenStreak ==
  \A u \in DOMAIN seen : \A i \in 1..Len(seen[u]) :
    LET e == seen[u][i] IN
    (/\ Checked(e)
     /\ \/ ~e.failed
        \/ (e.before # <<>> /\ e.t - e.before[Len(e.before)] > Span))
    => e.after = <<e.t>>

C14_WindowSlide ==
  \A u \in DOMAIN seen : \A i \in 1..Len(seen[u]) :
    LET e == seen[u][i] IN
    e.outcome = "FrequencyBreach"
      => (/\ e.after = Tail(Scanned(e))
          /\ e.after[Len(e.after)] = e.t)

C14_Witness ==
  \E u \in DOMAIN seen : \E i \in 1..Len(seen[u]) :
    LET e == seen[u][i] IN
    /\ e.outcome = "FrequencyBreach"
    /\ e.before[1] < e.before[2] /\ e.before[2] < e.before[3] /\ e.before[3] < e.t
    /\ log[u] = e.after

\* C15 as stated: on a "Failed" line whose scanned history has gaps of at
\* most 20 seconds, one of them of exactly 20, the history is not truncated.
C15_BoundaryCounts ==
  \A u \in DOMAIN seen : \A i \in 1..Len(seen[u]) :
    LET e == seen[u][i]
        g == Gaps(Scanned(e))
    IN (/\ Checked(e) /\ e.failed
        /\ Len(Scanned(e)) >= 3
        /\ \A k \in DOMAIN g : g[k] <= Span
        /\ \E k \in DOMAIN g : g[k] = Span)
       => Len(e.after) >= 2

\* C15 amended: a scan of 3 or more entries keeps the streak exactly when the
\* line says "Failed" and every gap is below 20 seconds; a gap of exactly 20
\* seconds cuts the history to the timestamp of the line.
C15_BoundaryBreaks ==
  \A u \in DOMAIN seen : \A i \in 1..Len(seen[u]) :
    LET e == seen[u][i]
        g == Gaps(Scanned(e))
    IN (Checked(e) /\ Len(Scanned(e)) >= 3)
       => /\ (e.after # <<e.t>>) <=> (e.failed /\ \A k \in DOMAIN g : g[k] < Span)
          /\ (\E k \in DOMAIN g : g[k] = Span)
               => (e.after = <<e.t>> /\ e.outcome = "Benign")

C15_Witness ==
  \E u \in DOMAIN seen : \E i \in 1..Len(seen[u]) :
    LET e == seen[u][i]
        g == Gaps(Scanned(e))
    IN /\ e.failed
       /\ Len(Scanned(e)) = 4
       /\ g[1] < Span /\ g[2] < Span /\ g[3] = Span
       /\ e.after = <<e.t>>

\* C19: a line without "Failed" is never classified FrequencyBreach.
C19_SuccessNeverBreaches ==
  /\ (lineCount > 0 /\ Find(line, "Failed") = npos) => outcome # "FrequencyBreach"
  /\ \A u \in DOMAIN seen : \A i \in 1..Len(seen[u]) :
       ~seen[u][i].failed => seen[u][i].outcome # "FrequencyBreach"

C19_Witness ==
  \E u \in DOMAIN seen : \E i \in 1..Len(seen[u]) :
    LET e == seen[u][i]
        g == Gaps(Scanned(e))
    IN /\ ~e.failed
       /\ Len(Scanned(e)) = 4
       /\ \A k \in DOMAIN g : g[k] < Span
       /\ e.outcome = "Benign"

\* h is what is left of s when entries are dropped from its front
IsSuffix(h, s) ==
  Len(h) <= Len(s) /\ h = SubSeq(s, Len(s) - Len(h) + 1, Len(s))

\* C20: after every frequency check the history of the user is not empty,
\* ends with the timestamp of the line, and keeps the order of arrival.
C20_MostRecentEntry ==
  \A u \in DOMAIN seen : \A i \in 1..Len(seen[u]) :
    LET e == seen[u][i] IN
    Checked(e) => (/\ e.after # <<>>
                   /\ e.after[Len(e.after)] = e.t
                   /\ IsSuffix(e.after, Scanned(e))
                   /\ i = Len(seen[u]) => log[u] = e.after)

C20_Witness ==
  \E u \in DOMAIN seen : \E i, j, k \in 1..Len(seen[u]) :
    /\ seen[u][i].outcome = "FrequencyBreach"
    /\ Len(seen[u][j].before) = 3 /\ seen[u][j].after = <<seen[u][j].t>>
    /\ Len(seen[u][k].before) = 2 /\ Len(seen[u][k].after) = 3

\* C17: a line that matches the authorized list or the banned list leaves
\* every history and every flag as they were.
C17_NoSideEffects ==
  [][(Handled /\ (isAuth(line', authUser) \/ isBand(line', banIP)))
       => (log' = log /\ flagged' = flagged)]_vars

C17_Witness ==
  /\ outcome \in {"Authorized", "BannedIP"}
  /\ user \in DOMAIN log
  /\ Len(log[user]) = 2
  /\ \A i \in 1..2 : log[user][i] # toSeconds(line[1])
  /\ Find(line, "Failed") = npos

\* a map cut down to the entry of one user
Only(f, u) == [x \in DOMAIN f \cap {u} |-> f[x]]

\* what a line does depends on the entries of its own user alone
OwnEntriesDecide(l) ==
  LET u == UserOf(l)
      b == Branch(l, flagged, log)
  IN /\ b = Branch(l, Only(flagged, u), Only(log, u))
     /\ HistOf(LogAfter(l, log, b), u) = HistOf(LogAfter(l, Only(log, u), b), u)
     /\ Only(FlaggedAfter(l, flagged, b), u) = FlaggedAfter(l, Only(flagged, u), b)

\* C18: a line of one user leaves the history and the flag of every other
\* user as they were, and what it does is decided by the entries of its own
\* user; so the outcomes of a user's lines do not depend on the lines of
\* other users between them.
C18_PerUserIsolation ==
  [][Handled =>
       /\ (~isAuth(line', authUser) /\ ~isBand(line', banIP)) => OwnEntriesDecide(line')
       /\ \A u \in Pids \ {user'} :
            /\ HistOf(log', u) = HistOf(log, u)
            /\ Only(flagged', u) = Only(flagged, u)]_vars

C18_Witness ==
  /\ DOMAIN log = Pids
  /\ \A u \in Pids : Len(log[u]) = 2
  /\ outcome = "Benign"
  /\ log[user][2] = toSeconds(line[1])

\* C16: the run ends with the summary printed exactly once, after the data
\* lines up to the first empty line or the end of the stream; before its end
\* no summary is printed.
C16_RunToExhaustion ==
  /\ pc \in {"header", "data"} => os.summary = <<>>
  /\ pc \notin {"header", "data"} => os.summary = << <<lineCount, hackAtt>> >>

TypeOK ==
  /\ pc \in {"header", "data", "done", "aborted"}
  /\ lineCount \in Nat /\ hackAtt \in Nat
  /\ outcome \in Outcomes \cup {"None"}
  /\ DOMAIN flagged \subseteq Pids
  /\ DOMAIN log \subseteq Pids
====
